---- MODULE Spec2Model ----
(***************************************************************************)
(* Task dispatch and delivery tracking of the WhatsApp API backend:        *)
(* the Task and Message tables (Prisma), the Bull queues and their         *)
(* workers, the device pull endpoints (MobZapService.fetchTasks,           *)
(* TaskController.getTasks), the reconciliation endpoints                  *)
(* (MobZapService.processCallback, TaskController.updateTaskStatus),       *)
(* TaskController.cancelTask and the message status updates.               *)
(*                                                                         *)
(* Every handler is an async function; the handlers whose awaits separate  *)
(* a read from the write that depends on it are modelled as several steps  *)
(* of a handler slot (proc), so that other handlers interleave between     *)
(* the read and the write.                                                 *)
(***************************************************************************)
EXTENDS Integers, Sequences, FiniteSets, TLC

\* ---- bounds of the model ------------------------------------------------
\* MaxTasks bounds the Task table where the order of dispatch is followed,
\* MaxTracked where the whole life of a task is followed.
MaxTasks == 2
MaxTracked == 1
MaxMessages == 2
MaxTime == 1
MaxHooks == 1
MaxLen == 3
MaxDevices == 2

\* ---- program constants --------------------------------------------------
Take == 10
DefaultPriority == 5
DefaultMaxRetries == 3
Attempts == 3
WebhookMaxRetries == 3
DefaultDeviceLimit == 1

\* u1 owns tasks; u2 is another authenticated user who owns none.
Owners == {"u1"}
Users == {"u1", "u2"}
Procs == {"p1", "p2"}
WProcs == {"w1", "w2"}
Priorities == {1, 5}
TaskTypes == {"MESSAGE", "GROUP_JOIN"}
TaskStatus == {"PENDING", "PROCESSING", "COMPLETED", "FAILED", "CANCELLED"}
MessageStatus == {"PENDING", "SENT", "DELIVERED", "READ", "FAILED"}
\* the events a Webhook row subscribes to (Webhook.events)
EventSets == { {"task.completed"}, {"task.completed", "task.failed", "task.processing"} }

\* Strings that are taken apart (phone numbers) are sequences of characters.
Digits == {"5", "1"}
Chars == Digits \cup {"+"}
DeviceTypes == {"NORMAL", "BUSINESS"}
AllTaskTypes ==
  {"MESSAGE", "MEDIA", "GROUP_JOIN", "GROUP_LEAVE", "GROUP_MESSAGE", "BULK_MESSAGE",
   "SCHEDULED_MESSAGE"}

\* A nullable DateTime column: Null, or At(n).
Null == <<>>
At(n) == <<n>>

VARIABLES
  now,        \* the wall clock read by new Date()
  tasks,      \* the Task table; a task's id is its index
  messages,   \* the Message table; a message's id is its index
  jobs,       \* the jobs of the Bull queues, in the order they were added
  proc,       \* the handler running in each slot, with its locals
  handed,     \* per task: how many fetch responses carried its instruction
  lastCb,     \* the last processCallback that ran to its end, with nothing written since
  out,        \* the response cancelTask wrote in the last step, if it wrote one
  hooks,      \* the Webhook table; a webhook's id is its index
  wcall,      \* the triggerWebhook calls (webhook.service) in flight, with their locals
  licenses,   \* per owner: the License row the owner's lookups return
  devices,    \* the Device table; a device's id is its index
  sessions,   \* MobZapService.activeSessions, in the Map's insertion order
  sweep       \* the cleanupInactiveSessions call in flight, with its locals

vars == <<now, tasks, messages, jobs, proc, handed, lastCb, out, hooks, wcall, licenses,
          devices, sessions, sweep>>
deviceVars == <<devices, sessions, sweep>>
webhookVars == <<hooks, wcall>>

TaskIds == 1..Len(tasks)
MsgIds == 1..Len(messages)
JobIds == 1..Len(jobs)
HookIds == 1..Len(hooks)

NoCb == [status |-> "none", result |-> "undef", error |-> "undef", delivered |-> FALSE]
Idle == [op |-> "idle", u |-> "none", t |-> 0, cb |-> NoCb, batch |-> <<>>, m |-> 0, j |-> 0]
\* the slots are interchangeable: a new handler takes the first free one
Free(p) == proc[p].op = "idle" /\ (p = "p2" => proc["p1"].op # "idle")
NoLast == [u |-> "none", t |-> 0, cb |-> NoCb]
NoOut == [op |-> "none", u |-> "none", t |-> 0, code |-> 0]

\* skipped: how many rows of the owner and event the lookup left out as inactive
WIdle == [op |-> "idle", u |-> "none", event |-> "none", list |-> <<>>, skipped |-> 0,
          thrown |-> FALSE, res |-> "none"]
\* a call that is over leaves its slot to the next one
WFree(c) == wcall[c].op # "post" /\ (c = "w2" => wcall["w1"].op = "post")

\* A License row: active is status ACTIVE with expiresAt still ahead;
\* messageLimit 0 is the null of a plan without a daily limit.
NewLicense(limit) ==
  [active |-> TRUE, messageLimit |-> limit, deviceLimit |-> DefaultDeviceLimit]

\* no cleanupInactiveSessions call is running
NoSweep == [op |-> "idle", d |-> 0]

Min(a, b) == IF a <= b THEN a ELSE b

Init ==
  /\ now = 0
  /\ tasks = <<>>
  /\ messages = <<>>
  /\ jobs = <<>>
  /\ proc = [p \in Procs |-> Idle]
  /\ handed = <<>>
  /\ lastCb = NoLast
  /\ out = NoOut
  /\ hooks = <<>>
  /\ wcall = [c \in WProcs |-> WIdle]
  /\ licenses = [u \in Owners |-> NewLicense(0)]
  /\ devices = <<>>
  /\ sessions = <<>>
  /\ sweep = NoSweep

\* ---- the Task and Message rows ------------------------------------------
\* the destination of the tasks whose data is not followed
SomeNumber == <<"1", "1">>

\* phoneNumber and phoneNumbers are data.phoneNumber and data.phoneNumbers
NewTask(u, type, priority, scheduledAt) ==
  [ userId |-> u, type |-> type, status |-> "PENDING", priority |-> priority,
    scheduledAt |-> scheduledAt, createdAt |-> now, executedAt |-> Null,
    completedAt |-> Null, retryCount |-> 0, maxRetries |-> DefaultMaxRetries,
    result |-> "null", error |-> "null",
    phoneNumber |-> SomeNumber, phoneNumbers |-> <<SomeNumber>>, deviceId |-> "d1" ]

\* A Message row: the columns the handlers read or branch on. waId is
\* metadata.messageId: 0 when absent, else the id the device reported.
\* (deliveredAt, readAt, error and the content columns are written and never read.)
\* phoneNumber is followed for the messages receiveMessage stores.
NewMessage(u, t, status) ==
  [ userId |-> u, taskId |-> t, status |-> status, direction |-> "OUTGOING", waId |-> 0,
    phoneNumber |-> <<>> ]

\* ---- MobZapService.formatPhoneNumber -----------------------------------------
IsDigit(ch) == ch \in Digits

\* phone.replace(/\D/g, '')
Cleaned(phone) == SelectSeq(phone, IsDigit)

StartsWith55(str) == Len(str) >= 2 /\ str[1] = "5" /\ str[2] = "5"

\* the prefix added whether or not it is there
FormatPhoneNumberPrefixed(phone) == <<"5", "5">> \o Cleaned(phone)

FormatPhoneNumber(phone) ==
  IF StartsWith55(Cleaned(phone)) THEN Cleaned(phone) ELSE <<"5", "5">> \o Cleaned(phone)

\* ---- MobZapService.convertToMobZapFormat -------------------------------------
ToLowerCase(deviceType) == IF deviceType = "BUSINESS" THEN "business" ELSE "normal"

FormatAll(phones) == [i \in 1..Len(phones) |-> FormatPhoneNumber(phones[i])]

\* the instruction for a task row with id t; the text, url, link and groupId
\* fields are copied from task.data and not followed. NoInstruction is null.
NoInstruction == [id |-> 0, type |-> "null", package |-> "null", number |-> <<>>,
                  numbers |-> <<>>, actionChat |-> "none"]

BaseTask(t, deviceType) ==
  [id |-> t, type |-> "chat", package |-> ToLowerCase(deviceType), number |-> <<>>,
   numbers |-> <<>>, actionChat |-> "none"]

\* every case answering a chat instruction
ConvertAllToChat(t, row, deviceType) ==
  [BaseTask(t, deviceType) EXCEPT !.number = FormatPhoneNumber(row.phoneNumber),
                                  !.actionChat = "send"]

ConvertToMobZapFormat(t, row, deviceType) ==
  CASE row.type = "MESSAGE" ->
         [BaseTask(t, deviceType) EXCEPT !.type = "chat",
                                         !.number = FormatPhoneNumber(row.phoneNumber),
                                         !.actionChat = "send"]
    [] row.type = "MEDIA" ->
         [BaseTask(t, deviceType) EXCEPT !.type = "media",
                                         !.number = FormatPhoneNumber(row.phoneNumber)]
    [] row.type = "GROUP_JOIN" ->
         [BaseTask(t, deviceType) EXCEPT !.type = "group", !.actionChat = "join"]
    [] row.type = "GROUP_LEAVE" ->
         [BaseTask(t, deviceType) EXCEPT !.type = "group", !.actionChat = "leave"]
    [] row.type = "GROUP_MESSAGE" ->
         [BaseTask(t, deviceType) EXCEPT !.type = "group_message"]
    [] row.type = "BULK_MESSAGE" ->
         [BaseTask(t, deviceType) EXCEPT !.type = "bulk",
                                         !.numbers = FormatAll(row.phoneNumbers)]
    [] OTHER -> NoInstruction

\* ---- the Bull queues ----------------------------------------------------
QueueOf(type) ==
  CASE type \in {"MESSAGE", "BULK_MESSAGE"} -> "messages"
    [] type = "MEDIA" -> "media"
    [] type \in {"GROUP_JOIN", "GROUP_LEAVE", "GROUP_MESSAGE"} -> "groups"
    [] OTHER -> "none"

\* addToQueue: one job on the queue of the task's type, priority = task.priority.
AddToQueue(q, t, type, priority) ==
  IF QueueOf(type) = "none" THEN q
  ELSE Append(q, [taskId |-> t, queue |-> QueueOf(type), priority |-> priority,
                  attemptsMade |-> 0, state |-> "waiting"])

\* ---- webhook.service.ts: triggerWebhook ---------------------------------------
NewWebhook(u, events) ==
  [ userId |-> u, events |-> events, isActive |-> TRUE, failureCount |-> 0,
    lastTriggered |-> Null ]

\* the lookup without its isActive clause
MatchingAnyState(u, event) ==
  { w \in HookIds : hooks[w].userId = u /\ event \in hooks[w].events }

\* findMany({ where: { userId, isActive: true, events: { has: event } } })
Matching(u, event) ==
  { w \in HookIds : hooks[w].userId = u /\ hooks[w].isActive /\ event \in hooks[w].events }

\* the rows as they were read: the loop tests the failureCount of its copy
Snapshot(w) == [id |-> w, failureCount |-> hooks[w].failureCount]

\* no orderBy: the rows in any order
HookLists(u, event) ==
  LET S == Matching(u, event) IN
  { [i \in 1..Cardinality(S) |-> Snapshot(f[i])] :
      f \in { g \in [1..Cardinality(S) -> S] :
                \A i, k \in 1..Cardinality(S) : i # k => g[i] # g[k] } }

Skipped(u, event) ==
  Cardinality({ w \in HookIds : hooks[w].userId = u /\ event \in hooks[w].events
                                /\ ~hooks[w].isActive })

\* the outer catch that rethrows
TriggerResultRethrown(thrown) == IF thrown THEN "rejected" ELSE "resolved"

\* the outer try / catch: an error is logged and the call resolves
TriggerResult(thrown) == "resolved"

WDone(thrown) ==
  [WIdle EXCEPT !.op = "done", !.thrown = thrown, !.res = TriggerResult(thrown)]

\* triggerWebhook(userId, event, data) up to its loop: with no row to deliver
\* to the call is over at once (its slot shows it only when the lookup left
\* inactive rows out); readOk = FALSE is a findMany that throws.
TriggerWebhook(u, event, readOk) ==
  /\ hooks' = hooks
  /\ IF ~readOk
     THEN \E c \in WProcs :
            /\ WFree(c)
            /\ wcall' = [wcall EXCEPT ![c] = WDone(TRUE)]
     ELSE IF Matching(u, event) = {}
     THEN IF Skipped(u, event) = 0
          THEN wcall' = wcall
          ELSE \E c \in WProcs :
                 /\ WFree(c)
                 /\ wcall' = [wcall EXCEPT ![c] =
                                [WDone(FALSE) EXCEPT !.skipped = Skipped(u, event)]]
     ELSE \E c \in WProcs, list \in HookLists(u, event) :
            /\ WFree(c)
            /\ wcall' = [wcall EXCEPT ![c] =
                           [WIdle EXCEPT !.op = "post", !.u = u, !.event = event, !.list = list,
                                         !.skipped = Skipped(u, event)]]

\* `task.${status}` of processCallback, `task.${status.toLowerCase()}` of updateTaskStatus
TaskEvent(status) ==
  CASE status \in {"completed", "COMPLETED"} -> "task.completed"
    [] status \in {"failed", "FAILED"} -> "task.failed"
    [] status \in {"processing", "PROCESSING"} -> "task.processing"
    [] OTHER -> "task.none"

\* the stub MobZapService.triggerWebhook: an empty body
StubTriggerWebhook(u, event) == UNCHANGED webhookVars

\* the write after a 2xx answer
Delivered(row) == [row EXCEPT !.lastTriggered = At(now), !.failureCount = 0]

\* the writes of the inner catch: the increment, then isActive = false when the
\* failureCount of the copy read before the loop is at the maximum
Undelivered(row, read) ==
  [row EXCEPT !.failureCount = @ + 1,
              !.isActive = IF read.failureCount >= WebhookMaxRetries THEN FALSE ELSE @]

\* a loop that a failed POST ends
NextTurnsUntilFailure(rest, post) == IF post = "fail" THEN <<>> ELSE rest

\* for (const webhook of webhooks): the inner try / catch keeps the outcome
\* of one turn from the turns that follow
NextTurns(rest, post) == rest

\* one turn of the loop: axios.post (post = "ok" for a 2xx answer, "fail" for
\* any other outcome) and the writes that follow; store = "throw" is a
\* webhook.update that throws, which ends the call in the outer catch.
Deliver(c, post, store) ==
  /\ UNCHANGED <<licenses, deviceVars>>
  /\ wcall[c].op = "post"
  /\ LET read == Head(wcall[c].list)
         rest == Tail(wcall[c].list)
     IN IF store = "throw"
        THEN /\ hooks' = hooks
             /\ wcall' = [wcall EXCEPT ![c] = WDone(TRUE)]
        ELSE /\ hooks' = [hooks EXCEPT ![read.id] =
                             IF post = "ok" THEN Delivered(@) ELSE Undelivered(@, read)]
             /\ wcall' = [wcall EXCEPT ![c] =
                             IF NextTurns(rest, post) = <<>> THEN WDone(FALSE)
                             ELSE [@ EXCEPT !.list = NextTurns(rest, post)]]
  /\ out' = NoOut
  /\ UNCHANGED <<now, tasks, messages, jobs, proc, handed, lastCb>>

\* a triggerWebhook call by any of its callers
Notify(u, event, readOk) ==
  /\ UNCHANGED <<licenses, deviceVars>>
  /\ TriggerWebhook(u, event, readOk)
  /\ out' = NoOut
  /\ UNCHANGED <<now, tasks, messages, jobs, proc, handed, lastCb>>

\* a Webhook row registered by its owner (the webhook routes)
Subscribe(u, events) ==
  /\ UNCHANGED <<licenses, deviceVars>>
  /\ Len(hooks) < MaxHooks
  /\ hooks' = Append(hooks, NewWebhook(u, events))
  /\ out' = NoOut
  /\ UNCHANGED <<now, tasks, messages, jobs, proc, handed, lastCb, wcall>>

\* ---- clock ----------------------------------------------------------------
Tick ==
  /\ UNCHANGED <<licenses, deviceVars>>
  /\ UNCHANGED webhookVars
  /\ now < MaxTime
  /\ now' = now + 1
  /\ out' = NoOut
  /\ UNCHANGED <<tasks, messages, jobs, proc, handed, lastCb>>

\* ---- TaskController.createTask -------------------------------------------
\* message.count({ userId, createdAt >= today }): the clock of the model
\* never passes midnight, so every row of the owner is of today
MessageCount(u) == Cardinality({ m \in MsgIds : messages[m].userId = u })

\* a handler that answers with an error status and writes nothing
Reject(op, u, code) ==
  /\ out' = [op |-> op, u |-> u, t |-> 0, code |-> code]
  /\ UNCHANGED <<now, tasks, messages, jobs, proc, handed, lastCb, hooks, wcall, licenses, deviceVars>>

CreateTask(u, type, priority, scheduledAt) ==
  IF ~licenses[u].active
  THEN Reject("createTask", u, 403)
  ELSE IF licenses[u].messageLimit # 0 /\ MessageCount(u) >= licenses[u].messageLimit
  THEN Reject("createTask", u, 429)
  ELSE
  /\ TriggerWebhook(u, "task.created", TRUE)
  /\ Len(tasks) < MaxTasks
  /\ LET t == Len(tasks) + 1 IN
     /\ tasks' = Append(tasks, NewTask(u, type, priority, scheduledAt))
     /\ handed' = Append(handed, 0)
     /\ jobs' = IF scheduledAt = Null THEN AddToQueue(jobs, t, type, priority) ELSE jobs
     /\ out' = NoOut
  /\ lastCb' = NoLast
  /\ UNCHANGED <<now, messages, proc, licenses, deviceVars>>

\* ---- TaskController.bulkCreateTasks --------------------------------------
\* createMany of the mapped tasks: no license lookup, no count, no addToQueue
BulkCreateTasks(u, types, deviceId) ==
  /\ UNCHANGED webhookVars
  /\ Len(tasks) + Len(types) <= MaxTasks
  /\ tasks' = tasks \o [i \in 1..Len(types) |->
                          [NewTask(u, types[i], DefaultPriority, Null)
                             EXCEPT !.deviceId = deviceId]]
  /\ handed' = handed \o [i \in 1..Len(types) |-> 0]
  /\ out' = NoOut
  /\ lastCb' = NoLast
  /\ UNCHANGED <<now, messages, jobs, proc, licenses, deviceVars>>

\* ---- MessageController.bulkSendMessages ----------------------------------
\* license?.messageLimit: without an active license the count is skipped
BulkSendMessages(u, phoneNumbers) ==
  IF /\ licenses[u].active
     /\ licenses[u].messageLimit # 0
     /\ MessageCount(u) + Len(phoneNumbers) > licenses[u].messageLimit
  THEN Reject("bulkSendMessages", u, 429)
  ELSE
  /\ UNCHANGED webhookVars
  /\ Len(tasks) < MaxTasks
  /\ LET t == Len(tasks) + 1 IN
     /\ tasks' = Append(tasks, [NewTask(u, "BULK_MESSAGE", DefaultPriority, Null)
                                  EXCEPT !.phoneNumbers = phoneNumbers])
     /\ handed' = Append(handed, 0)
     /\ jobs' = AddToQueue(jobs, t, "BULK_MESSAGE", DefaultPriority)
     /\ out' = NoOut
  /\ lastCb' = NoLast
  /\ UNCHANGED <<now, messages, proc, licenses, deviceVars>>

\* ---- licenses ----------------------------------------------------------------
\* LicenseService.createLicense: the owner's license is now the new ACTIVE row
CreateLicense(u, limit) ==
  /\ UNCHANGED <<webhookVars, deviceVars>>
  /\ licenses[u] # NewLicense(limit)
  /\ licenses' = [licenses EXCEPT ![u] = NewLicense(limit)]
  /\ out' = NoOut
  /\ UNCHANGED <<now, tasks, messages, jobs, proc, handed, lastCb>>

\* expiresAt passes (the lookups filter on it; the hourly cron then sets EXPIRED)
LicenseExpires(u) ==
  /\ UNCHANGED <<webhookVars, deviceVars>>
  /\ licenses[u].active
  /\ licenses' = [licenses EXCEPT ![u].active = FALSE]
  /\ out' = NoOut
  /\ UNCHANGED <<now, tasks, messages, jobs, proc, handed, lastCb>>

\* ---- MessageController.sendMessage ---------------------------------------
SendMessage(u) ==
  /\ UNCHANGED <<licenses, deviceVars>>
  /\ UNCHANGED webhookVars
  /\ Len(tasks) < MaxTasks
  /\ Len(messages) < MaxMessages
  /\ LET t == Len(tasks) + 1 IN
     /\ tasks' = Append(tasks, NewTask(u, "MESSAGE", DefaultPriority, Null))
     /\ handed' = Append(handed, 0)
     /\ messages' = Append(messages, NewMessage(u, t, "PENDING"))
     /\ jobs' = AddToQueue(jobs, t, "MESSAGE", DefaultPriority)
     /\ out' = NoOut
  /\ lastCb' = NoLast
  /\ UNCHANGED <<now, proc>>

\* ---- MobZapService.fetchTasks / TaskController.getTasks ------------------
\* the filter without its scheduledAt clause
EligibleAnyTime(u) ==
  { t \in TaskIds : tasks[t].userId = u /\ tasks[t].deviceId = "d1"
                    /\ tasks[t].status = "PENDING" }

\* where: { userId, deviceId: device.id, status: 'PENDING',
\*          OR: [scheduledAt null, scheduledAt <= now] }
\* "d1" is the device of the fetch; a task stored without deviceId has "null"
Eligible(u) ==
  { t \in TaskIds :
      /\ tasks[t].userId = u
      /\ tasks[t].deviceId = "d1"
      /\ tasks[t].status = "PENDING"
      /\ (tasks[t].scheduledAt = Null \/ tasks[t].scheduledAt[1] <= now) }

\* orderBy: [{ priority: 'desc' }, { createdAt: 'asc' }]
Before(a, b) ==
  \/ tasks[a].priority > tasks[b].priority
  \/ (tasks[a].priority = tasks[b].priority /\ tasks[a].createdAt < tasks[b].createdAt)

Sorted(s) == \A i, k \in 1..Len(s) : i < k => ~Before(s[k], s[i])

Orderings(S) ==
  { s \in [1..Cardinality(S) -> S] :
      /\ \A i, k \in 1..Cardinality(S) : i # k => s[i] # s[k]
      /\ Sorted(s) }

\* findMany(...): the eligible rows in order, rows that tie in any order, take: 10.
FindPending(u) == { SubSeq(s, 1, Min(Len(s), Take)) : s \in Orderings(Eligible(u)) }

\* the update of one claimed row: status PROCESSING, executedAt = new Date()
Claimed(row) == [row EXCEPT !.status = "PROCESSING", !.executedAt = At(now)]

Range(s) == { s[i] : i \in 1..Len(s) }

ClaimBatch(batch) ==
  [t \in TaskIds |-> IF t \in Range(batch) THEN Claimed(tasks[t]) ELSE tasks[t]]

HandBatch(batch) ==
  [t \in TaskIds |-> IF t \in Range(batch) THEN handed[t] + 1 ELSE handed[t]]

\* fetchTasks reads t.id of every converted task before it filters the nulls:
\* a task the converter has no case for makes the call throw after the updates.
Unconverted(batch) ==
  \E i \in 1..Len(batch) :
    ConvertToMobZapFormat(batch[i], tasks[batch[i]], "NORMAL") = NoInstruction

\* getTasks formats the tasks of five types and filters the others out of the
\* response (default: return null), then updateMany marks every task it read
Formatted(t) ==
  tasks[t].type \in {"MESSAGE", "MEDIA", "GROUP_JOIN", "GROUP_MESSAGE", "BULK_MESSAGE"}

FetchRead(p, u, op) ==
  /\ UNCHANGED <<licenses, deviceVars>>
  /\ UNCHANGED webhookVars
  /\ Free(p)
  /\ \E batch \in FindPending(u) :
       \* nothing is written for an empty list: the handler is over
       proc' = IF batch = <<>> THEN proc
               ELSE [proc EXCEPT ![p] = [Idle EXCEPT !.op = op, !.batch = batch]]
  /\ out' = NoOut
  /\ UNCHANGED <<now, tasks, messages, jobs, handed, lastCb>>

FetchClaim(p, op) ==
  /\ UNCHANGED <<licenses, deviceVars>>
  /\ UNCHANGED webhookVars
  /\ proc[p].op = op
  /\ tasks' = ClaimBatch(proc[p].batch)
  /\ handed' = IF op = "fetchTasks"
                THEN IF Unconverted(proc[p].batch) THEN handed ELSE HandBatch(proc[p].batch)
                ELSE HandBatch(SelectSeq(proc[p].batch, Formatted))
  /\ proc' = [proc EXCEPT ![p] = Idle]
  /\ lastCb' = NoLast
  /\ out' = NoOut
  /\ UNCHANGED <<now, messages, jobs>>

\* MobZapService.fetchTasks: findMany, then one update per task, then the list
FetchTasksRead(p, u) == FetchRead(p, u, "fetchTasks")
FetchTasksClaim(p) == FetchClaim(p, "fetchTasks")

\* TaskController.getTasks: findMany, then updateMany over the ids, then the list
GetTasksRead(p, u) == FetchRead(p, u, "getTasks")
GetTasksClaim(p) == FetchClaim(p, "getTasks")

\* ---- MobZapService.processCallback ----------------------------------------
CallbackStatus(st) ==
  IF st = "completed" THEN "COMPLETED" ELSE IF st = "failed" THEN "FAILED" ELSE "PROCESSING"

\* a field the callback leaves undefined is not written by prisma.update
Given(new, old) == IF new = "undef" THEN old ELSE new

\* the update without completedAt
CallbackTaskUpdateUnstamped(row, cb) ==
  [row EXCEPT !.status = CallbackStatus(cb.status),
              !.result = Given(cb.result, @),
              !.error = Given(cb.error, @)]

\* data: { status, result, error } and completedAt when completed
CallbackTaskUpdate(row, cb) ==
  [row EXCEPT !.status = CallbackStatus(cb.status),
              !.result = Given(cb.result, @),
              !.error = Given(cb.error, @),
              !.completedAt = IF cb.status = "completed" THEN At(now) ELSE @]

Terminal(cb) == cb.status \in {"completed", "failed"}

ThisCall(p) == [u |-> proc[p].u, t |-> proc[p].t, cb |-> proc[p].cb]

\* message.findFirst({ where: { taskId } }): no orderBy, so any of the task's
\* messages; 0 when it has none
FindMessage(t) ==
  LET found == { m \in MsgIds : messages[m].taskId = t }
  IN IF found = {} THEN {0} ELSE found

\* the lookup without its userId clause
FindTaskOfAnyUser(u, t) == t \in TaskIds

\* task.findFirst({ where: { id: taskId, userId } })
FindTask(u, t) == t \in TaskIds /\ tasks[t].userId = u

\* task.findFirst({ id: taskId, userId }), task.update, message.findFirst;
\* when no task is found: a warning is logged and the call returns (the route answers 200)
CallbackTask(p, u, t, cb) ==
  /\ UNCHANGED <<licenses, deviceVars>>
  /\ Free(p)
  /\ out' = IF FindTask(u, t) THEN NoOut
            ELSE [op |-> "processCallback", u |-> u, t |-> t, code |-> 200]
  /\ IF FindTask(u, t)
     THEN /\ tasks' = [tasks EXCEPT ![t] = CallbackTaskUpdate(@, cb)]
          /\ IF tasks[t].type \in {"MESSAGE", "MEDIA"}
             THEN /\ \E m \in FindMessage(t) :
                       proc' = [proc EXCEPT ![p] =
                                  [Idle EXCEPT !.op = "callback", !.u = u, !.t = t, !.cb = cb,
                                               !.m = m]]
                  /\ lastCb' = IF lastCb = [u |-> u, t |-> t, cb |-> cb] THEN lastCb ELSE NoLast
                  /\ UNCHANGED webhookVars
             ELSE /\ proc' = proc
                  /\ lastCb' = IF Terminal(cb) THEN [u |-> u, t |-> t, cb |-> cb] ELSE NoLast
                  /\ StubTriggerWebhook(u, TaskEvent(cb.status))
          /\ UNCHANGED <<now, messages, jobs, handed>>
     ELSE UNCHANGED <<now, tasks, messages, jobs, proc, handed, lastCb, hooks, wcall>>

CallbackMessageUpdate(row, cb, t) ==
  IF cb.status = "completed"
  THEN [row EXCEPT !.status = IF cb.delivered THEN "DELIVERED" ELSE "SENT",
                   !.waId = t]
  ELSE IF cb.status = "failed"
  THEN [row EXCEPT !.status = "FAILED"]
  ELSE row

\* message.create when none was found, then the update of the message
CallbackWrite(p) ==
  /\ UNCHANGED <<licenses, deviceVars>>
  /\ proc[p].op = "callback"
  /\ StubTriggerWebhook(proc[p].u, TaskEvent(proc[p].cb.status))
  /\ proc[p].m = 0 => Len(messages) < MaxMessages
  /\ LET t == proc[p].t
         cb == proc[p].cb
         created == IF proc[p].m = 0
                    THEN Append(messages, NewMessage(tasks[t].userId, t, "PENDING"))
                    ELSE messages
         m == IF proc[p].m = 0 THEN Len(created) ELSE proc[p].m
     IN messages' = [created EXCEPT ![m] = CallbackMessageUpdate(@, cb, t)]
  /\ lastCb' = IF Terminal(proc[p].cb) THEN ThisCall(p) ELSE NoLast
  /\ proc' = [proc EXCEPT ![p] = Idle]
  /\ out' = NoOut
  /\ UNCHANGED <<now, tasks, jobs, handed>>

\* ---- MobZapService.receiveMessage ------------------------------------------
IncomingMessage(u, from) ==
  [ userId |-> u, taskId |-> 0, status |-> "DELIVERED", direction |-> "INCOMING", waId |-> 0,
    phoneNumber |-> FormatPhoneNumber(from) ]

\* message.create, notifyUser (a stub), the stub triggerWebhook, and
\* checkAutoResponder, which returns at once: nothing writes its cache key
ReceiveMessage(u, from) ==
  /\ UNCHANGED <<licenses, deviceVars>>
  /\ Len(messages) < MaxMessages
  /\ messages' = Append(messages, IncomingMessage(u, from))
  /\ StubTriggerWebhook(u, "message.received")
  /\ lastCb' = NoLast
  /\ out' = NoOut
  /\ UNCHANGED <<now, tasks, jobs, proc, handed>>

\* ---- TaskController.updateTaskStatus --------------------------------------
StatusTaskUpdate(row, status, result, error) ==
  [row EXCEPT !.status = status,
              !.result = Given(result, @),
              !.error = Given(error, @),
              !.completedAt = IF status = "COMPLETED" THEN At(now) ELSE Null]

UpdateTaskStatus(u, t, status, result, error) ==
  IF t \in TaskIds /\ tasks[t].userId = u
  THEN /\ (status = "COMPLETED" /\ tasks[t].type = "MESSAGE") => Len(messages) < MaxMessages
       /\ tasks' = [tasks EXCEPT ![t] = StatusTaskUpdate(@, status, result, error)]
       /\ messages' = IF status = "COMPLETED" /\ tasks[t].type = "MESSAGE"
                      THEN Append(messages, NewMessage(u, t, "SENT"))
                      ELSE messages
       /\ TriggerWebhook(u, TaskEvent(status), TRUE)
       /\ out' = NoOut
       /\ lastCb' = NoLast
       /\ UNCHANGED <<now, jobs, proc, handed, licenses, deviceVars>>
  ELSE /\ out' = NoOut
       /\ UNCHANGED <<now, tasks, messages, jobs, proc, handed, lastCb, hooks, wcall, licenses, deviceVars>>

\* ---- TaskController.cancelTask --------------------------------------------
\* the lookup without its status clause
CancellableAnyStatus(u, t) ==
  t \in TaskIds /\ tasks[t].userId = u

\* findFirst({ id: taskId, userId, status: 'PENDING' })
Cancellable(u, t) ==
  t \in TaskIds /\ tasks[t].userId = u /\ tasks[t].status = "PENDING"

CancelFind(p, u, t) ==
  /\ UNCHANGED <<licenses, deviceVars>>
  /\ UNCHANGED webhookVars
  /\ Free(p)
  /\ IF Cancellable(u, t)
     THEN /\ proc' = [proc EXCEPT ![p] = [Idle EXCEPT !.op = "cancel", !.u = u, !.t = t]]
          /\ out' = NoOut
     ELSE /\ proc' = proc
          /\ out' = [op |-> "cancelTask", u |-> u, t |-> t, code |-> 404]
  /\ UNCHANGED <<now, tasks, messages, jobs, handed, lastCb>>

\* update({ where: { id: taskId }, data: { status: 'CANCELLED' } })
CancelUpdate(p) ==
  /\ UNCHANGED <<licenses, deviceVars>>
  /\ UNCHANGED webhookVars
  /\ proc[p].op = "cancel"
  /\ tasks' = [tasks EXCEPT ![proc[p].t].status = "CANCELLED"]
  /\ out' = [op |-> "cancelTask", u |-> proc[p].u, t |-> proc[p].t, code |-> 200]
  /\ proc' = [proc EXCEPT ![p] = Idle]
  /\ lastCb' = NoLast
  /\ UNCHANGED <<now, messages, jobs, handed>>

\* ---- the Bull workers (queue.service.ts) ----------------------------------
Waiting(q) == { j \in JobIds : jobs[j].queue = q /\ jobs[j].state = "waiting" }

\* Bull serves the waiting job with the smallest priority number first
\* (1 is the highest priority), jobs of one priority in the order they were added.
Served(a, b) ==
  \/ jobs[a].priority < jobs[b].priority
  \/ (jobs[a].priority = jobs[b].priority /\ a < b)

NextJob(q) == { j \in Waiting(q) : \A k \in Waiting(q) : k = j \/ Served(j, k) }

\* messageQueue.process: the task is set PROCESSING, then the send is awaited.
\* The processor is taken to serve every job addToQueue puts on its queue.
JobStart(p) ==
  /\ UNCHANGED <<licenses, deviceVars>>
  /\ UNCHANGED webhookVars
  /\ Free(p)
  /\ \E j \in NextJob("messages") :
       /\ jobs' = [jobs EXCEPT ![j].state = "active"]
       /\ tasks' = [tasks EXCEPT ![jobs[j].taskId] = Claimed(@)]
       /\ proc' = [proc EXCEPT ![p] = [Idle EXCEPT !.op = "job_send", !.t = jobs[j].taskId, !.j = j]]
  /\ lastCb' = NoLast
  /\ out' = NoOut
  /\ UNCHANGED <<now, messages, handed>>

\* the send resolved: task COMPLETED, message.create with status SENT
JobSucceed(p) ==
  /\ UNCHANGED <<licenses, deviceVars>>
  /\ TriggerWebhook(tasks[proc[p].t].userId, "message.sent", TRUE)
  /\ proc[p].op = "job_send"
  /\ Len(messages) < MaxMessages
  /\ tasks' = [tasks EXCEPT ![proc[p].t] =
                 [@ EXCEPT !.status = "COMPLETED", !.completedAt = At(now), !.result = "ok"]]
  /\ messages' = Append(messages, NewMessage(tasks[proc[p].t].userId, proc[p].t, "SENT"))
  /\ jobs' = [jobs EXCEPT ![proc[p].j].state = "completed"]
  /\ proc' = [proc EXCEPT ![p] = Idle]
  /\ lastCb' = NoLast
  /\ out' = NoOut
  /\ UNCHANGED <<now, handed>>

\* the attempts Bull makes of a job before it fails it (defaultJobOptions.attempts)
Retried(job) ==
  [job EXCEPT !.attemptsMade = @ + 1,
              !.state = IF job.attemptsMade + 1 < Attempts THEN "waiting" ELSE "failed"]

\* the catch block without the retryCount increment
FailedTaskUncounted(row) ==
  [row EXCEPT !.status = "FAILED", !.error = "err"]

FailedTask(row) ==
  [row EXCEPT !.status = "FAILED", !.error = "err", !.retryCount = @ + 1]

\* the send threw: task FAILED with the error, retryCount + 1, and the error rethrown to Bull
JobFail(p) ==
  /\ UNCHANGED <<licenses, deviceVars>>
  /\ UNCHANGED webhookVars
  /\ proc[p].op = "job_send"
  /\ tasks' = [tasks EXCEPT ![proc[p].t] = FailedTask(@)]
  /\ jobs' = [jobs EXCEPT ![proc[p].j] = Retried(@)]
  /\ proc' = [proc EXCEPT ![p] = Idle]
  /\ lastCb' = NoLast
  /\ out' = NoOut
  /\ UNCHANGED <<now, messages, handed>>

\* mediaQueue.process / groupQueue.process: return { success: true }, no write
OtherJob(q) ==
  /\ UNCHANGED <<licenses, deviceVars>>
  /\ UNCHANGED webhookVars
  /\ \E j \in NextJob(q) : jobs' = [jobs EXCEPT ![j].state = "completed"]
  /\ out' = NoOut
  /\ UNCHANGED <<now, tasks, messages, proc, handed, lastCb>>

\* initializeQueues at startup: obliterate({ force: true }) removes every job
\* of the three queues, whatever its state
InitializeQueues ==
  /\ UNCHANGED <<licenses, deviceVars>>
  /\ UNCHANGED webhookVars
  /\ \A p \in Procs : proc[p].op = "idle"
  /\ \E j \in JobIds : jobs[j].state # "removed"
  /\ jobs' = [j \in JobIds |-> [jobs[j] EXCEPT !.state = "removed"]]
  /\ out' = NoOut
  /\ UNCHANGED <<now, tasks, messages, proc, handed, lastCb>>

\* ---- message status updates -----------------------------------------------
AckStatus(ack) ==
  CASE ack = 0 -> "PENDING"
    [] ack = 1 -> "SENT"
    [] ack = 2 -> "DELIVERED"
    [] ack = 3 -> "READ"
    [] OTHER -> "FAILED"

\* WhatsAppWebService.updateMessageStatus: UPDATE "Message" SET status WHERE metadata.messageId = id
MessageAck(w, ack) ==
  /\ UNCHANGED <<licenses, deviceVars>>
  /\ UNCHANGED webhookVars
  /\ \E m \in MsgIds : messages[m].waId = w
  /\ messages' = [m \in MsgIds |->
                    IF messages[m].waId = w
                    THEN [messages[m] EXCEPT !.status = AckStatus(ack)]
                    ELSE messages[m]]
  /\ lastCb' = NoLast
  /\ out' = NoOut
  /\ UNCHANGED <<now, tasks, jobs, proc, handed>>

\* socket.on('message_status'): update({ id: messageId }, { status, ... })
SocketMessageStatus(m, status) ==
  /\ UNCHANGED <<licenses, deviceVars>>
  /\ UNCHANGED webhookVars
  /\ m \in MsgIds
  /\ messages' = [messages EXCEPT ![m].status = status]
  /\ lastCb' = NoLast
  /\ out' = NoOut
  /\ UNCHANGED <<now, tasks, jobs, proc, handed>>

\* ---- App.setupCronJobs: the per-minute scan of due tasks -------------------
\* findMany({ status: 'PENDING', scheduledAt <= now }, take 10), then a log line per task
CronDue ==
  { t \in TaskIds : tasks[t].status = "PENDING"
                    /\ tasks[t].scheduledAt # Null /\ tasks[t].scheduledAt[1] <= now }

Cron ==
  /\ UNCHANGED <<licenses, deviceVars>>
  /\ UNCHANGED webhookVars
  /\ CronDue # {}
  /\ out' = NoOut
  /\ UNCHANGED <<now, tasks, messages, jobs, proc, handed, lastCb>>

\* ---- devices and their sessions ----------------------------------------------
DeviceIds == 1..Len(devices)

DevicePhones == {"n1", "n2"}

\* A Device row; deleted marks a row device.delete removed.
NewDevice(u, phone, status, connected) ==
  [userId |-> u, phoneNumber |-> phone, status |-> status, isConnected |-> connected,
   deleted |-> FALSE]

\* user.devices / device.findFirst({ where: { userId, ... } })
DevicesOf(u) == { d \in DeviceIds : ~devices[d].deleted /\ devices[d].userId = u }

\* device.findUnique({ where: { phoneNumber } })
ByPhone(phone) == { d \in DeviceIds : ~devices[d].deleted /\ devices[d].phoneNumber = phone }

\* DeviceController.registerDevice: 409 for a known number, 403 without an
\* active license or at the device limit, else an INACTIVE device
RegisterDevice(u, phone) ==
  IF ByPhone(phone) # {}
  THEN Reject("registerDevice", u, 409)
  ELSE IF ~licenses[u].active \/ Cardinality(DevicesOf(u)) >= licenses[u].deviceLimit
  THEN Reject("registerDevice", u, 403)
  ELSE
  /\ Len(devices) < MaxDevices
  /\ devices' = Append(devices, NewDevice(u, phone, "INACTIVE", FALSE))
  /\ out' = NoOut
  /\ UNCHANGED <<now, tasks, messages, jobs, proc, handed, lastCb, hooks, wcall, licenses,
                 sessions, sweep>>

\* activeSessions.set(device.id, { ..., lastSeen: new Date() }): a known key
\* keeps its place in the Map, a new one goes to the end. age is "stale" once
\* lastSeen lies more than the threshold before the clock; passed marks an
\* entry the running iterator has gone by.
SetSession(s, d) ==
  IF \E i \in 1..Len(s) : s[i].d = d
  THEN [i \in 1..Len(s) |-> IF s[i].d = d THEN [s[i] EXCEPT !.age = "fresh"] ELSE s[i]]
  ELSE Append(s, [d |-> d, age |-> "fresh", passed |-> FALSE])

\* fetchTasks up to activeSessions.set: the device of the number is created
\* (ACTIVE, connected, with no look at the license) or updated, then its
\* session is set
FetchTasksDevice(u, phone) ==
  LET found == { d \in DevicesOf(u) : devices[d].phoneNumber = phone } IN
  IF found = {} /\ ByPhone(phone) # {}
  THEN Reject("fetchTasks", u, 500)
  ELSE
  /\ found = {} => Len(devices) < MaxDevices
  /\ \E d \in (IF found = {} THEN {Len(devices) + 1} ELSE found) :
       /\ devices' = IF found = {}
                     THEN Append(devices, NewDevice(u, phone, "ACTIVE", TRUE))
                     ELSE [devices EXCEPT ![d].isConnected = TRUE, ![d].status = "ACTIVE"]
       /\ sessions' = SetSession(sessions, d)
  /\ out' = NoOut
  /\ UNCHANGED <<now, tasks, messages, jobs, proc, handed, lastCb, hooks, wcall, licenses,
                 sweep>>

\* DeviceController.deleteDevice: the row goes, activeSessions is not touched
DeleteDevice(u, d) ==
  IF d \notin DevicesOf(u)
  THEN Reject("deleteDevice", u, 404)
  ELSE IF \E t \in TaskIds : tasks[t].userId = u /\ tasks[t].status \in {"PENDING", "PROCESSING"}
  THEN Reject("deleteDevice", u, 400)
  ELSE
  /\ devices' = [devices EXCEPT ![d].deleted = TRUE]
  /\ out' = NoOut
  /\ UNCHANGED <<now, tasks, messages, jobs, proc, handed, lastCb, hooks, wcall, licenses,
                 sessions, sweep>>

\* The threshold passes without a fetch of the device. cleanupInactiveSessions
\* reads the clock once, before its loop: against that reading no entry grows
\* stale while the call runs.
SessionAges(i) ==
  /\ sweep.op = "idle"
  /\ i \in 1..Len(sessions)
  /\ sessions[i].age = "fresh"
  /\ sessions' = [sessions EXCEPT ![i].age = "stale"]
  /\ out' = NoOut
  /\ UNCHANGED <<now, tasks, messages, jobs, proc, handed, lastCb, hooks, wcall, licenses,
                 devices, sweep>>

\* ---- MobZapService.cleanupInactiveSessions ----------------------------------
Unpassed(s) == [i \in 1..Len(s) |-> [s[i] EXCEPT !.passed = FALSE]]

NextStale(s) == { i \in 1..Len(s) : ~s[i].passed /\ s[i].age = "stale" }

Without(s, i) == SubSeq(s, 1, i - 1) \o SubSeq(s, i + 1, Len(s))

\* The loop up to its next await: the entries within the threshold are gone
\* by, the first stale one is deleted and its device.update is awaited; with
\* no stale entry left the call is over.
Advance(s) ==
  IF NextStale(s) = {}
  THEN /\ sessions' = Unpassed(s)
       /\ sweep' = NoSweep
  ELSE LET i == CHOOSE k \in NextStale(s) : \A l \in NextStale(s) : k <= l IN
       /\ sessions' = Without([k \in 1..Len(s) |-> IF k < i THEN [s[k] EXCEPT !.passed = TRUE]
                                                  ELSE s[k]], i)
       /\ sweep' = [op |-> "update", d |-> s[i].d]

CleanupInactiveSessions ==
  /\ sweep.op = "idle"
  /\ Advance(sessions)
  /\ out' = NoOut
  /\ UNCHANGED <<now, tasks, messages, jobs, proc, handed, lastCb, hooks, wcall, licenses,
                 devices>>

\* device.update({ isConnected: false, status: 'INACTIVE' }) resolves and the
\* loop goes on; for a row that is gone it throws and the call is over
CleanupUpdate ==
  /\ sweep.op = "update"
  /\ IF devices[sweep.d].deleted
     THEN /\ sessions' = Unpassed(sessions)
          /\ sweep' = NoSweep
          /\ devices' = devices
     ELSE /\ devices' = [devices EXCEPT ![sweep.d].isConnected = FALSE,
                                        ![sweep.d].status = "INACTIVE"]
          /\ Advance(sessions)
  /\ out' = NoOut
  /\ UNCHANGED <<now, tasks, messages, jobs, proc, handed, lastCb, hooks, wcall, licenses>>

\* ---- inputs -----------------------------------------------------------------
\* the strings of at most MaxLen characters
Strings(n) == UNION { [1..k -> Chars] : k \in 0..n }

Phones == Strings(MaxLen)

Callbacks ==
  { [status |-> "completed", result |-> "ok", error |-> "undef", delivered |-> d] :
      d \in BOOLEAN }
  \cup { [status |-> "failed", result |-> "undef", error |-> "err", delivered |-> FALSE],
         [status |-> "processing", result |-> "undef", error |-> "undef", delivered |-> FALSE] }

StatusUpdates ==
  { <<"COMPLETED", "ok", "undef">>, <<"FAILED", "undef", "err">>,
    <<"PROCESSING", "undef", "undef">> }

\* ---- the handlers, over their inputs --------------------------------------
Create ==
  \E u \in Owners, type \in TaskTypes, priority \in Priorities,
     scheduledAt \in {Null, At(MaxTime)} :
    CreateTask(u, type, priority, scheduledAt)

Send == \E u \in Owners : SendMessage(u)

Devices ==
  \/ \E u \in Owners, phone \in DevicePhones : RegisterDevice(u, phone)
  \/ \E u \in Owners, phone \in DevicePhones : FetchTasksDevice(u, phone)
  \/ \E u \in Owners, d \in 1..MaxDevices : DeleteDevice(u, d)

Sessions ==
  \/ \E i \in 1..MaxDevices : SessionAges(i)
  \/ CleanupInactiveSessions
  \/ CleanupUpdate

BulkCreate ==
  \E u \in Owners, types \in UNION { [1..n -> TaskTypes] : n \in 1..MaxTasks } :
    BulkCreateTasks(u, types, "d1")

BulkSend ==
  \E u \in Owners, n \in 1..MaxMessages :
    BulkSendMessages(u, [i \in 1..n |-> SomeNumber])

\* the daily limits of the plans, scaled to the size of the Message table
Limits == 0..MaxMessages

License ==
  \/ \E u \in Owners, limit \in Limits : CreateLicense(u, limit)
  \/ \E u \in Owners : LicenseExpires(u)

Fetch ==
  \/ \E p \in Procs, u \in Users : FetchTasksRead(p, u)
  \/ \E p \in Procs : FetchTasksClaim(p)
  \/ \E p \in Procs, u \in Users : GetTasksRead(p, u)
  \/ \E p \in Procs : GetTasksClaim(p)

CallbackOf(cbs) ==
  \/ \E p \in Procs, u \in Users, t \in 1..MaxTasks, cb \in cbs : CallbackTask(p, u, t, cb)
  \/ \E p \in Procs : CallbackWrite(p)

Callback == CallbackOf(Callbacks)

StatusUpdate ==
  \E u \in Users, t \in 1..MaxTasks, s \in StatusUpdates :
    UpdateTaskStatus(u, t, s[1], s[2], s[3])

Cancel ==
  \/ \E p \in Procs, u \in Users, t \in 1..MaxTasks : CancelFind(p, u, t)
  \/ \E p \in Procs : CancelUpdate(p)

MessageWorker ==
  \/ \E p \in Procs : JobStart(p)
  \/ \E p \in Procs : JobSucceed(p)
  \/ \E p \in Procs : JobFail(p)

Worker ==
  \/ MessageWorker
  \/ \E q \in {"media", "groups"} : OtherJob(q)

MessageStatusUpdate ==
  \/ \E w \in 1..MaxTasks, ack \in 0..4 : MessageAck(w, ack)
  \/ \E m \in 1..MaxMessages, status \in MessageStatus : SocketMessageStatus(m, status)

Events == UNION EventSets

WebhookCall ==
  \/ \E u \in Users, event \in Events : Notify(u, event, TRUE)
  \/ \E c \in WProcs, post \in {"ok", "fail"} : Deliver(c, post, "ok")

WebhookFault ==
  \/ \E u \in Users, event \in Events : Notify(u, event, FALSE)
  \/ \E c \in WProcs : Deliver(c, "fail", "throw")

Register == \E u \in Owners, events \in EventSets : Subscribe(u, events)

Receive == \E u \in Owners, from \in Phones : ReceiveMessage(u, from)

\* ---- specifications -----------------------------------------------------------
\* The whole system.
Next ==
  \/ Tick
  \/ Create
  \/ Send
  \/ Fetch
  \/ Callback
  \/ StatusUpdate
  \/ Cancel
  \/ Worker
  \/ MessageStatusUpdate
  \/ Cron
  \/ Register
  \/ WebhookCall
  \/ WebhookFault
  \/ Receive
  \/ BulkCreate
  \/ BulkSend
  \/ License
  \/ Devices
  \/ Sessions
  \/ InitializeQueues

Spec == Init /\ [][Next]_vars

\* One task is followed: a task is created only while the table is empty.
Tracked == Len(tasks) < MaxTracked

\* Dispatch of one task: creation with a priority and a schedule, the clock,
\* every path that claims a task, and cancellation.
NextDispatch ==
  \/ Tick
  \/ (Tracked /\ Create)
  \/ (Tracked /\ Send)
  \/ Fetch
  \/ Cancel
  \/ Worker
  \/ Cron

SpecDispatch == Init /\ [][NextDispatch]_vars

\* The life of one task: every handler that writes a Task row, at one instant.
NextLife ==
  \/ (Tracked /\ \E u \in Owners, type \in TaskTypes : CreateTask(u, type, DefaultPriority, Null))
  \/ (Tracked /\ Send)
  \/ Fetch
  \/ CallbackOf({ cb \in Callbacks : ~cb.delivered })
  \/ StatusUpdate
  \/ Cancel
  \/ Worker

SpecLife == Init /\ [][NextLife]_vars

\* Reconciliation of one task over time: the callbacks of a task a device fetched.
NextReconcile ==
  \/ Tick
  \/ (Tracked /\ \E u \in Owners, type \in TaskTypes : CreateTask(u, type, DefaultPriority, Null))
  \/ Fetch
  \/ Callback

SpecReconcile == Init /\ [][NextReconcile]_vars

\* The Message rows of one task: every handler that writes a Message row.
NextMessage ==
  \/ (Tracked /\ Send)
  \/ Callback
  \/ StatusUpdate
  \/ MessageWorker
  \/ MessageStatusUpdate

SpecMessage == Init /\ [][NextMessage]_vars

\* The order of dispatch among several tasks: the device fetch and the Bull workers.
NextOrder ==
  \/ Tick
  \/ (\E u \in Owners, type \in TaskTypes, priority \in Priorities :
        CreateTask(u, type, priority, Null))
  \/ Fetch
  \/ Worker

SpecOrder == Init /\ [][NextOrder]_vars

\* Claiming against the schedule: creation with a schedule, the clock and every
\* path that moves a task to PROCESSING in order to run it.
NextSchedule ==
  \/ Tick
  \/ (Tracked /\ Create)
  \/ (Tracked /\ Send)
  \/ Fetch
  \/ Worker
  \/ Cron

SpecSchedule == Init /\ [][NextSchedule]_vars

\* Cancellation against the paths that claim and finish a task.
NextCancel ==
  \/ (Tracked /\ \E u \in Owners, type \in TaskTypes : CreateTask(u, type, DefaultPriority, Null))
  \/ (Tracked /\ Send)
  \/ Fetch
  \/ Cancel
  \/ Worker

SpecCancel == Init /\ [][NextCancel]_vars

\* The attempts of a message job against the handlers that write its task.
NextRetry ==
  \/ (Tracked /\ Send)
  \/ Fetch
  \/ Cancel
  \/ MessageWorker
  \/ StatusUpdate

SpecRetry == Init /\ [][NextRetry]_vars

\* The webhook notifier: subscriptions, calls from any caller, deliveries.
NextWebhook ==
  \/ Register
  \/ WebhookCall

SpecWebhook == Init /\ [][NextWebhook]_vars

\* The webhook notifier with a store that may throw.
NextWebhookFault ==
  \/ Register
  \/ WebhookCall
  \/ WebhookFault

SpecWebhookFault == Init /\ [][NextWebhookFault]_vars

\* the callbacks that report an outcome
Outcomes == { cb \in Callbacks : Terminal(cb) /\ ~cb.delivered }

\* Reconciliation of one task with the owner's subscriptions.
NextNotify ==
  \/ Register
  \/ (Tracked /\ \E u \in Owners, type \in TaskTypes : CreateTask(u, type, DefaultPriority, Null))
  \/ CallbackOf(Outcomes)
  \/ (\E u \in Owners, t \in 1..MaxTasks : UpdateTaskStatus(u, t, "COMPLETED", "ok", "undef"))
  \/ \E c \in WProcs, post \in {"ok", "fail"} : Deliver(c, post, "ok")

SpecNotify == Init /\ [][NextNotify]_vars

\* The outcome callbacks of the owner for a task the owner's device fetched.
NextOutcome ==
  \/ (Tracked /\ \E u \in Owners, type \in TaskTypes : CreateTask(u, type, DefaultPriority, Null))
  \/ (\E p \in Procs, u \in Owners : FetchTasksRead(p, u))
  \/ (\E p \in Procs : FetchTasksClaim(p))
  \/ (\E p \in Procs, u \in Owners, t \in 1..MaxTasks, cb \in Outcomes : CallbackTask(p, u, t, cb))
  \/ (\E p \in Procs : CallbackWrite(p))

SpecOutcome == Init /\ [][NextOutcome]_vars

\* The outcome callbacks of any user for any task id.
NextUnknown ==
  \/ (Tracked /\ \E u \in Owners, type \in TaskTypes : CreateTask(u, type, DefaultPriority, Null))
  \/ CallbackOf(Outcomes)

SpecUnknown == Init /\ [][NextUnknown]_vars

\* Inbound messages of an owner who subscribed to message.received and has
\* sent a message.
NextInbound ==
  \/ (\E u \in Owners : Subscribe(u, {"message.received"}))
  \/ (Tracked /\ Send)
  \/ Receive

SpecInbound == Init /\ [][NextInbound]_vars

\* Task creation under every license state: the four creating handlers, the
\* inbound messages that count against the limit, and the license changes.
NextQuota ==
  \/ License
  \/ (\E u \in Owners : CreateTask(u, "MESSAGE", DefaultPriority, Null))
  \/ Send
  \/ BulkCreate
  \/ BulkSend
  \/ (\E u \in Owners : ReceiveMessage(u, SomeNumber))

SpecQuota == Init /\ [][NextQuota]_vars

\* formatPhoneNumber over every sender string.
NextPhone == Receive

SpecPhone == Init /\ [][NextPhone]_vars

\* convertToMobZapFormat: one pending task of any type and any destination,
\* as createTask left it, and the fetches that convert it.
InitConvert ==
  /\ now = 0
  /\ \E u \in Owners, type \in AllTaskTypes, a \in Phones, b \in Phones :
       /\ tasks = << [NewTask(u, type, DefaultPriority, Null)
                        EXCEPT !.phoneNumber = a, !.phoneNumbers = <<a, b>>] >>
       /\ jobs = AddToQueue(<<>>, 1, type, DefaultPriority)
  /\ messages = <<>>
  /\ proc = [p \in Procs |-> Idle]
  /\ handed = <<0>>
  /\ lastCb = NoLast
  /\ out = NoOut
  /\ hooks = <<>>
  /\ wcall = [c \in WProcs |-> WIdle]
  /\ licenses = [u \in Owners |-> NewLicense(0)]
  /\ devices = <<>>
  /\ sessions = <<>>
  /\ sweep = NoSweep

NextConvert ==
  \/ \E p \in Procs, u \in Users : FetchTasksRead(p, u)
  \/ \E p \in Procs : FetchTasksClaim(p)

SpecConvert == InitConvert /\ [][NextConvert]_vars

\* The callbacks of a device working through a bulk task of three
\* destinations: progress reports, then the final report with or without a
\* summary of its own.
BulkCallbacks ==
  { [status |-> "processing", result |-> r, error |-> "undef", delivered |-> FALSE] :
      r \in {"1of3", "2of3"} }
  \cup { [status |-> "completed", result |-> r, error |-> "undef", delivered |-> FALSE] :
           r \in {"2of3", "3of3", "undef"} }

\* One bulk task of three destinations, its fetch and its callbacks.
NextBulk ==
  \/ (Tracked /\ \E u \in Owners :
        BulkSendMessages(u, <<SomeNumber, SomeNumber, SomeNumber>>))
  \/ (\E p \in Procs, u \in Owners : FetchTasksRead(p, u))
  \/ (\E p \in Procs : FetchTasksClaim(p))
  \/ \E p \in Procs, u \in Owners, t \in 1..MaxTasks, cb \in BulkCallbacks :
       CallbackTask(p, u, t, cb)

SpecBulk == Init /\ [][NextBulk]_vars

\* Fetches over tasks of types the converters have a case for and of types
\* they have none for (bulkCreateTasks stores any TaskType).
NextFetch ==
  \/ (\E u \in Owners, type \in {"MESSAGE", "GROUP_LEAVE", "SCHEDULED_MESSAGE"} :
        BulkCreateTasks(u, <<type>>, "d1"))
  \/ Fetch

SpecFetch == Init /\ [][NextFetch]_vars

\* Devices, their sessions and the sweep, under every interleaving.
NextSessions ==
  \/ Devices
  \/ Sessions

SpecSessions == Init /\ [][NextSessions]_vars

\* The sweep with no fetch while it runs.
NextCleanup ==
  \/ (sweep.op = "idle" /\ Devices)
  \/ Sessions

SpecCleanup == Init /\ [][NextCleanup]_vars

\* Every way a pending task can be taken up: the workers of the queues, the
\* per-minute cron, the fetches of the device, with the clock and a restart.
NextStarve ==
  \/ Tick
  \/ (Tracked /\ \E u \in Owners, scheduledAt \in {Null, At(MaxTime)} :
        CreateTask(u, "MESSAGE", DefaultPriority, scheduledAt))
  \/ (Tracked /\ \E u \in Owners, deviceId \in {"d1", "null"} :
        BulkCreateTasks(u, <<"MESSAGE">>, deviceId))
  \/ Fetch
  \/ MessageWorker
  \/ Cron
  \/ InitializeQueues

SpecStarve == Init /\ [][NextStarve]_vars

\* One owner with two subscriptions, and the triggerWebhook calls and their
\* deliveries.
InitFanOut ==
  /\ now = 0
  /\ tasks = <<>>
  /\ messages = <<>>
  /\ jobs = <<>>
  /\ proc = [p \in Procs |-> Idle]
  /\ handed = <<>>
  /\ lastCb = NoLast
  /\ out = NoOut
  /\ \E e1 \in EventSets, e2 \in EventSets :
       hooks = << NewWebhook("u1", e1), NewWebhook("u1", e2) >>
  /\ wcall = [c \in WProcs |-> WIdle]
  /\ licenses = [u \in Owners |-> NewLicense(0)]
  /\ devices = <<>>
  /\ sessions = <<>>
  /\ sweep = NoSweep

SpecFanOut == InitFanOut /\ [][WebhookCall]_vars

\* ---- properties ---------------------------------------------------------------

\* C1: under any interleaving of fetchTasks / getTasks calls, a task's
\* instruction is returned by exactly one of them: no task is handed to a
\* device by more than one fetch response.
C1_ExclusiveClaim == \A t \in TaskIds : handed[t] <= 1

\* C2: every change of a task's status follows one of the edges
\* PENDING -> PROCESSING, PROCESSING -> COMPLETED, PROCESSING -> FAILED,
\* PENDING -> CANCELLED.
ForwardEdges ==
  { <<"PENDING", "PROCESSING">>, <<"PROCESSING", "COMPLETED">>,
    <<"PROCESSING", "FAILED">>, <<"PENDING", "CANCELLED">> }

C2_ForwardOnly ==
  [][ \A t \in TaskIds :
        tasks'[t].status # tasks[t].status
          => <<tasks[t].status, tasks'[t].status>> \in ForwardEdges ]_vars

\* C3: a processCallback call that repeats the last call (same user, task and
\* terminal outcome), with nothing written in between, is a no-op: none of its
\* steps changes a Task or a Message row.
RepeatedCallStep ==
  /\ lastCb # NoLast
  /\ \/ \E p \in Procs : CallbackTask(p, lastCb.u, lastCb.t, lastCb.cb)
     \/ \E p \in Procs : ThisCall(p) = lastCb /\ CallbackWrite(p)

C3_SecondCallNoOp ==
  [][ RepeatedCallStep => (tasks' = tasks /\ messages' = messages) ]_vars

\* C4: a Message that is READ is never set back to SENT or DELIVERED.
C4_NoRegression ==
  [][ \A m \in MsgIds :
        messages[m].status = "READ" => messages'[m].status \notin {"SENT", "DELIVERED"} ]_vars

\* C5: in every reachable state a task has at most one OUTGOING Message.
Outgoing(t) == { m \in MsgIds : messages[m].taskId = t /\ messages[m].direction = "OUTGOING" }

C5_OneOutgoing == \A t \in TaskIds : Cardinality(Outgoing(t)) <= 1

\* C6: cancelTask on a PENDING task of the caller is not rejected and its
\* update leaves the task CANCELLED with a success response; cancelTask on a
\* PROCESSING task is answered with an error and changes no row.
C6_CancelPendingOnly ==
  [][ /\ \A p \in Procs, u \in Users, t \in TaskIds :
           CancelFind(p, u, t) =>
             /\ (tasks[t].userId = u /\ tasks[t].status = "PENDING")
                  => (proc'[p].op = "cancel" /\ proc'[p].t = t /\ out' = NoOut)
             /\ tasks[t].status = "PROCESSING"
                  => (out'.code = 404 /\ proc' = proc /\ tasks' = tasks)
      /\ \A p \in Procs :
           CancelUpdate(p) =>
             (tasks'[proc[p].t].status = "CANCELLED" /\ out'.code = 200) ]_vars

C6_RejectedProcessing ==
  /\ out.op = "cancelTask" /\ out.code = 404
  /\ out.t \in TaskIds
  /\ tasks[out.t].userId = out.u
  /\ tasks[out.t].status = "PROCESSING"

\* C7: whenever a task becomes PROCESSING by a dispatch path (the workers of
\* the jobs createTask / sendMessage enqueued, fetchTasks, getTasks, the cron),
\* its scheduledAt is null or not later than the time of the claim.
C7_NotBeforeSchedule ==
  [][ \A t \in TaskIds :
        (tasks[t].status # "PROCESSING" /\ tasks'[t].status = "PROCESSING")
          => (tasks[t].scheduledAt = Null \/ tasks[t].scheduledAt[1] <= now) ]_vars

C7_ClaimedWhenDue ==
  \E t \in TaskIds :
    /\ tasks[t].scheduledAt # Null
    /\ tasks[t].status = "PROCESSING"
    /\ tasks[t].executedAt # Null
    /\ tasks[t].scheduledAt[1] <= tasks[t].executedAt[1]

\* C8: dispatch takes the higher numeric priority first and, within a
\* priority, the earliest createdAt first: the batch a fetch reads is in that
\* order, and a Bull worker never takes a job while a waiting job of the same
\* queue carries a pending task that comes before the taken job's task.
PendingJob(j) == jobs[j].state = "waiting" /\ tasks[jobs[j].taskId].status = "PENDING"

C8_DispatchOrder ==
  [][ /\ \A p \in Procs : Sorted(proc'[p].batch)
      /\ \A j \in JobIds :
           (PendingJob(j) /\ jobs'[j].state # "waiting")
             => \A k \in JobIds :
                  (PendingJob(k) /\ jobs[k].queue = jobs[j].queue)
                    => ~Before(jobs[k].taskId, jobs[j].taskId) ]_vars

\* C9: at the step where Bull fails a message job for good (the send threw on
\* each of its attempts), the task is FAILED, its error is set and retryCount
\* equals maxRetries; and retryCount never exceeds maxRetries.
C9_RetriesExhausted ==
  [][ /\ \A t \in TaskIds : tasks'[t].retryCount <= tasks'[t].maxRetries
      /\ \A j \in JobIds :
           (jobs[j].state # "failed" /\ jobs'[j].state = "failed")
             => LET row == tasks'[jobs[j].taskId] IN
                /\ row.status = "FAILED"
                /\ row.error # "null"
                /\ row.retryCount = row.maxRetries ]_vars

C9_JobFailedForGood ==
  \E j \in JobIds :
    /\ jobs[j].state = "failed"
    /\ jobs[j].attemptsMade = Attempts
    /\ tasks[jobs[j].taskId].status = "FAILED"
    /\ tasks[jobs[j].taskId].retryCount = tasks[jobs[j].taskId].maxRetries

\* C10: when a task is FAILED and no processCallback for it is between its
\* task update and its message update, every Message of the task is FAILED.
CallbackInFlight(t) == \E p \in Procs : proc[p].op = "callback" /\ proc[p].t = t

C10_MessagesFailed ==
  \A t \in TaskIds :
    (tasks[t].status = "FAILED" /\ ~CallbackInFlight(t))
      => \A m \in MsgIds : messages[m].taskId = t => messages[m].status = "FAILED"

\* C11: every reconciliation call that finds its task (updateTaskStatus, or
\* processCallback at its end) starts exactly one fan-out for its event name
\* to the owner's active subscriptions, when the owner has one for the event.
ReconcileEnds(u, event) ==
  \/ \E t \in TaskIds, s \in StatusUpdates :
       /\ tasks[t].userId = u /\ TaskEvent(s[1]) = event
       /\ UpdateTaskStatus(u, t, s[1], s[2], s[3])
  \/ \E p \in Procs, t \in TaskIds, cb \in Callbacks :
       /\ tasks[t].userId = u /\ tasks[t].type \notin {"MESSAGE", "MEDIA"}
       /\ TaskEvent(cb.status) = event
       /\ CallbackTask(p, u, t, cb)
  \/ \E p \in Procs :
       /\ proc[p].u = u /\ TaskEvent(proc[p].cb.status) = event
       /\ CallbackWrite(p)

FanOutStarted(u, event) ==
  Cardinality({ c \in WProcs : /\ wcall'[c] # wcall[c]
                               /\ wcall'[c].op = "post"
                               /\ wcall'[c].u = u /\ wcall'[c].event = event }) = 1

C11_OneFanOut ==
  [][ \A u \in Users, event \in Events :
        (ReconcileEnds(u, event) /\ Matching(u, event) # {}) => FanOutStarted(u, event) ]_vars

\* C12: a 2xx delivery sets failureCount to 0 and stamps lastTriggered, any
\* other outcome adds 1 to failureCount, and isActive goes from true to false
\* exactly in the step where failureCount reaches WebhookMaxRetries.
C12_FailureCount ==
  [][ /\ \A c \in WProcs :
           /\ Deliver(c, "ok", "ok") =>
                LET w == Head(wcall[c].list).id IN
                hooks'[w].failureCount = 0 /\ hooks'[w].lastTriggered = At(now)
           /\ Deliver(c, "fail", "ok") =>
                LET w == Head(wcall[c].list).id IN
                hooks'[w].failureCount = hooks[w].failureCount + 1
      /\ \A w \in HookIds :
           (hooks[w].isActive /\ ~hooks'[w].isActive)
             <=> (hooks[w].failureCount < WebhookMaxRetries
                  /\ hooks'[w].failureCount >= WebhookMaxRetries) ]_vars

\* C13: a triggerWebhook call that starts while a subscription is inactive
\* does not take it into its loop, and a loop writes and posts to no other
\* subscription than the one at the head of the list it read.
CallStarts(c) == wcall[c].op # "post" /\ wcall'[c].op = "post"

C13_InactiveSkipped ==
  [][ \A c \in WProcs :
        /\ CallStarts(c) =>
             \A i \in 1..Len(wcall'[c].list) : hooks[wcall'[c].list[i].id].isActive
        /\ (wcall[c].op = "post" /\ wcall'[c] # wcall[c]) =>
             \A w \in HookIds : hooks'[w] # hooks[w] => w = Head(wcall[c].list).id ]_vars

C13_CallWithInactive ==
  /\ \E w \in HookIds : ~hooks[w].isActive
  /\ \E c \in WProcs : wcall[c].op = "done" /\ wcall[c].skipped > 0

\* C14: every triggerWebhook call that is over has resolved, whatever the
\* POST answered and whether or not a read or write of the store threw.
C14_NeverRejects ==
  \A c \in WProcs : wcall[c].op = "done" => wcall[c].res = "resolved"

C14_ResolvedAfterThrow ==
  \E c \in WProcs : wcall[c].op = "done" /\ wcall[c].thrown /\ wcall[c].res = "resolved"

\* C15: a processCallback for a task id that does not exist or belongs to
\* another user changes no Task row, no Message row and no handler state, and
\* returns normally.
C15_UnknownTaskIgnored ==
  [][ \A p \in Procs, u \in Users, t \in 1..MaxTasks, cb \in Callbacks :
        (~(t \in TaskIds /\ tasks[t].userId = u) /\ CallbackTask(p, u, t, cb))
          => /\ tasks' = tasks /\ messages' = messages /\ proc' = proc /\ jobs' = jobs
             /\ out'.op = "processCallback" /\ out'.code = 200 ]_vars

C15_ForeignCallback ==
  /\ out.op = "processCallback" /\ out.code = 200
  /\ out.t \in TaskIds
  /\ tasks[out.t].userId # out.u

\* C16: processCallback on a PROCESSING task of the caller: 'completed' leaves
\* the task COMPLETED with completedAt stamped and the result stored, 'failed'
\* leaves it FAILED with the error stored.
C16_OutcomeStored ==
  [][ \A p \in Procs, u \in Users, t \in TaskIds, cb \in Callbacks :
        (tasks[t].userId = u /\ tasks[t].status = "PROCESSING" /\ CallbackTask(p, u, t, cb))
          => /\ cb.status = "completed" =>
                  /\ tasks'[t].status = "COMPLETED"
                  /\ tasks'[t].completedAt = At(now)
                  /\ tasks'[t].result = cb.result
             /\ cb.status = "failed" =>
                  /\ tasks'[t].status = "FAILED"
                  /\ tasks'[t].error = cb.error ]_vars

C16_CompletedAfterClaim ==
  \E t \in TaskIds :
    /\ tasks[t].status = "COMPLETED"
    /\ tasks[t].executedAt # Null
    /\ tasks[t].completedAt # Null
    /\ tasks[t].result = "ok"

\* C17: a receiveMessage call appends exactly one Message, INCOMING, tied to
\* no task and with the sender's number normalized, leaves every other row as
\* it was, and starts one message.received fan-out to the owner's active
\* subscriptions when the owner has one.
C17_InboundStored ==
  [][ \A u \in Owners, from \in Phones :
        ReceiveMessage(u, from) =>
          /\ Len(messages') = Len(messages) + 1
          /\ SubSeq(messages', 1, Len(messages)) = messages
          /\ messages'[Len(messages')].direction = "INCOMING"
          /\ messages'[Len(messages')].taskId = 0
          /\ messages'[Len(messages')].phoneNumber = FormatPhoneNumber(from)
          /\ tasks' = tasks
          /\ Matching(u, "message.received") # {} => FanOutStarted(u, "message.received") ]_vars

\* C18: every step that persists new tasks for an owner is taken while the
\* owner holds an active license whose daily message limit, if it has one, is
\* not reached: a failed license/quota check means no task is created.
MayCreate(u) ==
  /\ licenses[u].active
  /\ licenses[u].messageLimit # 0 => MessageCount(u) < licenses[u].messageLimit

C18_QuotaChecked ==
  [][ \A t \in (Len(tasks) + 1)..Len(tasks') : MayCreate(tasks'[t].userId) ]_vars

\* C19: the number formatPhoneNumber stored is a fixed point of
\* formatPhoneNumber (so formatting twice equals formatting once), has digits
\* only and begins with 55.
C19_FormatIdempotent ==
  \A m \in MsgIds :
    messages[m].direction = "INCOMING" =>
      LET x == messages[m].phoneNumber IN
      /\ FormatPhoneNumber(x) = x
      /\ \A i \in 1..Len(x) : x[i] \in Digits
      /\ Len(x) >= 2 /\ x[1] = "5" /\ x[2] = "5"

C19_PrefixAdded ==
  \E m \in MsgIds :
    /\ messages[m].direction = "INCOMING"
    /\ Len(messages[m].phoneNumber) = MaxLen + 2

\* C20: the instruction fetchTasks converts a claimed task to carries the
\* task's id, the lower-cased device type as package, the kind and action of
\* the task's type (MESSAGE chat/send, MEDIA media, GROUP_JOIN group/join,
\* GROUP_LEAVE group/leave, GROUP_MESSAGE group_message, BULK_MESSAGE bulk)
\* and every destination number normalized.
KindOf(type) ==
  CASE type = "MESSAGE" -> <<"chat", "send">>
    [] type = "MEDIA" -> <<"media", "none">>
    [] type = "GROUP_JOIN" -> <<"group", "join">>
    [] type = "GROUP_LEAVE" -> <<"group", "leave">>
    [] type = "GROUP_MESSAGE" -> <<"group_message", "none">>
    [] type = "BULK_MESSAGE" -> <<"bulk", "none">>

Listed ==
  {"MESSAGE", "MEDIA", "GROUP_JOIN", "GROUP_LEAVE", "GROUP_MESSAGE", "BULK_MESSAGE"}

Normalized(x) ==
  /\ \A i \in 1..Len(x) : x[i] \in Digits
  /\ Len(x) >= 2 /\ x[1] = "5" /\ x[2] = "5"

C20_InstructionOfType ==
  [][ \A p \in Procs :
        FetchTasksClaim(p) =>
          \A i \in 1..Len(proc[p].batch), d \in DeviceTypes :
            tasks[proc[p].batch[i]].type \in Listed =>
            LET t == proc[p].batch[i]
                row == tasks[t]
                ins == ConvertToMobZapFormat(t, row, d)
            IN /\ ins.id = t
               /\ ins.package = (IF d = "NORMAL" THEN "normal" ELSE "business")
               /\ <<ins.type, ins.actionChat>> = KindOf(row.type)
               /\ row.type \in {"MESSAGE", "MEDIA"} =>
                    (Normalized(ins.number) /\ Cleaned(ins.number) = ins.number
                     /\ ins.number \in {Cleaned(row.phoneNumber), <<"5", "5">> \o Cleaned(row.phoneNumber)})
               /\ row.type = "BULK_MESSAGE" =>
                    /\ Len(ins.numbers) = Len(row.phoneNumbers)
                    /\ \A k \in 1..Len(ins.numbers) :
                         /\ Normalized(ins.numbers[k])
                         /\ ins.numbers[k] \in {Cleaned(row.phoneNumbers[k]),
                                                <<"5", "5">> \o Cleaned(row.phoneNumbers[k])} ]_vars

C20_BulkClaimed ==
  \E t \in TaskIds :
    /\ tasks[t].type = "BULK_MESSAGE"
    /\ tasks[t].status = "PROCESSING"
    /\ handed[t] = 1

\* C21: on a bulk task, a progress callback leaves a terminal status as it
\* is, and the final completed callback that follows the progress report for
\* two destinations stores COMPLETED with a summary of two or three sent.
C21_BulkProgress ==
  [][ \A p \in Procs, u \in Owners, t \in TaskIds, cb \in BulkCallbacks :
        (tasks[t].type = "BULK_MESSAGE" /\ FindTask(u, t) /\ CallbackTask(p, u, t, cb)) =>
          IF cb.status = "processing"
          THEN tasks[t].status \in {"COMPLETED", "FAILED", "CANCELLED"} =>
                 tasks'[t].status = tasks[t].status
          ELSE tasks[t].result = "2of3" =>
                 (tasks'[t].status = "COMPLETED" /\ tasks'[t].result \in {"2of3", "3of3"}) ]_vars

\* C22: a task is dispatched on one path only: no task whose queue job a
\* worker has taken up has also had its instruction handed to a device by a
\* fetch.
C22_OneDispatchPath ==
  \A j \in JobIds : jobs[j].state # "waiting" => handed[jobs[j].taskId] = 0

\* C23: a task has been marked PROCESSING by a fetch if and only if its
\* instruction was in a list returned to the device.
C23_ClaimedIffHanded ==
  \A t \in TaskIds : tasks[t].status = "PROCESSING" <=> handed[t] >= 1

\* C24: the step in which a queue worker's send succeeds leaves the task
\* PROCESSING: the worker does not complete the task itself.
C24_HandoffKeepsProcessing ==
  [][ \A p \in Procs :
        (proc[p].op = "job_send" /\ JobSucceed(p)) =>
          tasks'[proc[p].t].status = "PROCESSING" ]_vars

\* C25: when a cleanupInactiveSessions call is over, no session older than
\* the threshold is left in activeSessions, every device without a session is
\* written as disconnected, and every device with a session is as its fetch
\* left it, connected and ACTIVE.
Swept ==
  /\ \A i \in 1..Len(sessions) : sessions[i].age = "fresh"
  /\ \A d \in DeviceIds :
       ~devices[d].deleted =>
         IF \E i \in 1..Len(sessions) : sessions[i].d = d
         THEN devices[d].isConnected /\ devices[d].status = "ACTIVE"
         ELSE ~devices[d].isConnected

C25_StaleSwept ==
  [][ (sweep.op # "idle" /\ sweep'.op = "idle") => Swept' ]_vars

\* C28: a device that holds a session within the threshold is never written
\* as disconnected or INACTIVE.
C28_FreshStaysConnected ==
  \A i \in 1..Len(sessions) :
    (sessions[i].age = "fresh" /\ ~devices[sessions[i].d].deleted) =>
      (devices[sessions[i].d].isConnected /\ devices[sessions[i].d].status = "ACTIVE")

\* C30: an owner never has more devices than the deviceLimit of the owner's
\* active license.
C30_DeviceLimit ==
  \A u \in Owners : Cardinality(DevicesOf(u)) <= licenses[u].deviceLimit

\* C26: a CANCELLED task has had no instruction handed to a device and no
\* queue job of it taken up by a worker.
C26_CancelOrClaim ==
  \A t \in TaskIds :
    tasks[t].status = "CANCELLED" =>
      /\ handed[t] = 0
      /\ \A j \in JobIds : jobs[j].taskId = t => jobs[j].state = "waiting"

\* C27: every PENDING task that is due can still be claimed: a fetch of its
\* device finds it, or a job of it waits on a queue for a worker. (When
\* neither holds no step ever takes the task out of PENDING, however fairly
\* workers, cron and fetches are scheduled: the cron only logs.)
C27_DueTaskClaimable ==
  \A t \in TaskIds :
    (/\ tasks[t].status = "PENDING"
     /\ (tasks[t].scheduledAt = Null \/ tasks[t].scheduledAt[1] <= now)) =>
      \/ tasks[t].deviceId = "d1"
      \/ \E j \in JobIds : jobs[j].taskId = t /\ jobs[j].state = "waiting"

====
